---- MODULE Spec2Model ----
(***************************************************************************)
(* Model of the forecasting pipeline of app/app.py: the feature row built  *)
(* for every (hour, unit), the hourly generation loop of                   *)
(* generate_single_unit_forecast, the "Forecast Call Volume" button        *)
(* handler, and the results view (aggregation and peak hour).              *)
(*                                                                         *)
(* Two specifications share the same loop actions:                         *)
(*   Spec     the Streamlit script: button handler, session state, view   *)
(*   SpecGen  generate_single_unit_forecast called directly, with inputs   *)
(*            the user interface never produces (absent organization id,   *)
(*            negative census, non-positive duration, arbitrary schema)    *)
(***************************************************************************)
EXTENDS Integers, Sequences, FiniteSets, TLC

VARIABLES
    model_feature_columns, \* the schema loaded by load_model()
    session_state,         \* st.session_state: a dict, DOMAIN = keys present
    multiselect,           \* value of the "Filter units to display" widget
    shown,                 \* what the last script run rendered
    pc,                    \* "idle" | "loop" (handler's for) | "gen" (generate's for)
    caller,                \* who called generate: "handler" | "direct"
    request,               \* widget values read by the running handler
    unit_forecasts,        \* handler local: dict being filled
    ui,                    \* handler: position in unit_census_map.items()
    frame,                 \* locals of the running generate_single_unit_forecast
    features_df,           \* the row last passed to model.predict
    predict_log,           \* calls of model.predict made by the running request
    result,                \* value returned by a direct call
    error                  \* exception that ended the last run, or NoError

vars == <<model_feature_columns, session_state, multiselect, shown, pc, caller,
          request, unit_forecasts, ui, frame, features_df, predict_log, result,
          error>>

\* An optional organization id: None, or Some(id)
None == <<>>

Some(id) == <<id>>

NoUnit == ""

----------------------------------------------------------------------------
(* Bounds *)

MaxDuration == 2      \* largest value of the duration slider explored
MaxGenDuration == 2   \* largest duration of a direct call explored
MaxSchemaLen == 3     \* longest schema of a direct call explored

----------------------------------------------------------------------------
(* datetime and timedelta (start_time + timedelta(hours=h), ts.hour,       *)
(* ts.weekday()), computed the way CPython's datetime does: through the    *)
(* proleptic Gregorian ordinal.                                            *)

IsLeap(y) == y % 4 = 0 /\ (y % 100 # 0 \/ y % 400 = 0)

DAYS_IN_MONTH == <<31, 28, 31, 30, 31, 30, 31, 31, 30, 31, 30, 31>>

DAYS_BEFORE_MONTH == <<0, 31, 59, 90, 120, 151, 181, 212, 243, 273, 304, 334>>

DaysBeforeYear(y) ==
    LET y1 == y - 1 IN y1 * 365 + (y1 \div 4) - (y1 \div 100) + (y1 \div 400)

DaysBeforeMonth(y, m) ==
    DAYS_BEFORE_MONTH[m] + (IF m > 2 /\ IsLeap(y) THEN 1 ELSE 0)

ToOrdinal(ts) == DaysBeforeYear(ts.year) + DaysBeforeMonth(ts.year, ts.month) + ts.day

\* date.fromordinal: CPython's _ord2ymd
Ord2Ymd(ordinal) ==
    LET n0   == ordinal - 1
        n400 == n0 \div 146097
        r400 == n0 % 146097
        n100 == r400 \div 36524
        r100 == r400 % 36524
        n4   == r100 \div 1461
        r4   == r100 % 1461
        n1   == r4 \div 365
        n    == r4 % 365
        year == n400 * 400 + 1 + n100 * 100 + n4 * 4 + n1
    IN  IF n1 = 4 \/ n100 = 4
        THEN [year |-> year - 1, month |-> 12, day |-> 31]
        ELSE LET leap  == n1 = 3 /\ (n4 # 24 \/ n100 = 3)
                 m0    == (n + 50) \div 32
                 p0    == DAYS_BEFORE_MONTH[m0] + (IF m0 > 2 /\ leap THEN 1 ELSE 0)
                 month == IF p0 > n THEN m0 - 1 ELSE m0
                 prec  == IF p0 > n
                          THEN p0 - (DAYS_IN_MONTH[month]
                                     + (IF month = 2 /\ leap THEN 1 ELSE 0))
                          ELSE p0
             IN  [year |-> year, month |-> month, day |-> n - prec + 1]

\* start_time + timedelta(hours=h)
AddHours(ts, h) ==
    LET minutes == (ToOrdinal(ts) * 24 + ts.hour + h) * 60 + ts.minute
        days    == minutes \div 1440
        rem     == minutes % 1440
        ymd     == Ord2Ymd(days)
    IN  [year |-> ymd.year, month |-> ymd.month, day |-> ymd.day,
         hour |-> rem \div 60, minute |-> rem % 60]

\* ts.weekday(): Monday is 0
Weekday(ts) == (ToOrdinal(ts) + 6) % 7

\* order of two timestamps (the sort order of a DatetimeIndex)
TsLess(a, b) ==
    LET ka == <<a.year, a.month, a.day, a.hour, a.minute>>
        kb == <<b.year, b.month, b.day, b.hour, b.minute>>
    IN  \E i \in 1..5 : ka[i] < kb[i] /\ \A j \in 1..(i - 1) : ka[j] = kb[j]

Timestamp(y, mo, d, h, mi) ==
    [year |-> y, month |-> mo, day |-> d, hour |-> h, minute |-> mi]

----------------------------------------------------------------------------
(* The feature row: lines 88-106 of generate_single_unit_forecast *)

StartsWith(s, prefix) ==
    Len(s) >= Len(prefix) /\ SubSeq(s, 1, Len(prefix)) = prefix

\* what an f-string writes for an organization id
StrOf(organization_id) ==
    IF organization_id = None THEN "None" ELSE ToString(organization_id[1])

Range(s) == {s[i] : i \in DOMAIN s}

\* org_id_cols = [col for col in feature_columns if col.startswith('organization_id_')]
OrgIdCols(feature_columns) ==
    LET IsOrg(col) == StartsWith(col, "organization_id_")
    IN  SelectSeq(feature_columns, IsOrg)

\* for col in org_id_cols: feature_data[col] = 0
ZeroOrgCols(feature_data, org_id_cols) ==
    [col \in DOMAIN feature_data \cup Range(org_id_cols) |->
        IF col \in Range(org_id_cols) THEN 0 ELSE feature_data[col]]

\* a slip: the organization's own column is never set
SetCurrentOrgNever(feature_data, organization_id) == feature_data

\* if current_org_col in feature_data: feature_data[current_org_col] = 1
SetCurrentOrg(feature_data, organization_id) ==
    LET current_org_col == "organization_id_" \o StrOf(organization_id)
    IN  IF current_org_col \in DOMAIN feature_data
        THEN [feature_data EXCEPT ![current_org_col] = 1]
        ELSE feature_data

\* the dict feature_data after line 102
FeatureData(ts, census, organization_id, feature_columns) ==
    LET base == [col \in {"rooms_with_patients", "hour_of_day", "day_of_week"} |->
                    CASE col = "rooms_with_patients" -> census
                      [] col = "hour_of_day" -> ts.hour
                      [] col = "day_of_week" -> Weekday(ts)]
    IN  SetCurrentOrg(ZeroOrgCols(base, OrgIdCols(feature_columns)), organization_id)

\* features_df[feature_columns]: the columns pandas does not find (KeyError)
MissingColumns(feature_data, feature_columns) ==
    {col \in Range(feature_columns) : col \notin DOMAIN feature_data}

\* a slip: line 106 left out, the row keeps the dict's own columns and order
SelectColumnsDictOrder(feature_data, feature_columns) ==
    LET keys == <<"rooms_with_patients", "hour_of_day", "day_of_week">>
                    \o OrgIdCols(feature_columns)
    IN  [i \in DOMAIN keys |-> <<keys[i], feature_data[keys[i]]>>]

\* features_df[feature_columns]: the row, as <<column, value>> pairs in order
SelectColumns(feature_data, feature_columns) ==
    [i \in DOMAIN feature_columns |->
        <<feature_columns[i], feature_data[feature_columns[i]]>>]

\* a slip: the raw value is kept
Max0Identity(val) == val

\* positive_prediction = [max(0, val) for val in prediction[0]]
Max0(val) == IF val > 0 THEN val ELSE 0

PositivePrediction(prediction) == [i \in DOMAIN prediction |-> Max0(prediction[i])]

categories == <<"Clinical", "Mobility", "Basic Need", "Housekeeping", "Other">>

\* a slip: range(1, duration + 1)
TimestampsOffByOne(start_time, duration) ==
    [k \in 1..(IF duration > 0 THEN duration ELSE 0) |-> AddHours(start_time, k)]

\* timestamps = [start_time + timedelta(hours=h) for h in range(duration)]
Timestamps(start_time, duration) ==
    [k \in 1..(IF duration > 0 THEN duration ELSE 0) |-> AddHours(start_time, k - 1)]

\* pd.DataFrame(predictions, columns=categories, index=pd.to_datetime(timestamps))
DataFrame(predictions, timestamps) == [index |-> timestamps, values |-> predictions]

----------------------------------------------------------------------------
(* The external predictor: any row of per-category values, or a failure *)

RawRows == {<<-1, 5, 0, 2, 0>>, <<3, 0, -2, 0, 1>>}

PredictOutcomes == {[ok |-> TRUE, row |-> r] : r \in RawRows}
                       \cup {[ok |-> FALSE, row |-> <<>>]}

----------------------------------------------------------------------------
(* Values a variable holds when the thing it stands for does not exist *)

NoError == [type |-> "none", missing |-> {}]

NoTimestamp == Timestamp(0, 0, 0, 0, 0)

NoFrame == [start_time |-> NoTimestamp, duration |-> 0, census |-> 0,
            organization_id |-> None, feature_columns |-> <<>>,
            unit_name |-> NoUnit, timestamps |-> <<>>, predictions |-> <<>>, h |-> 0]

NoRequest == [selected_hospital |-> NoUnit, selected_unit |-> NoUnit,
              unit_census_map |-> <<>>, start_datetime |-> NoTimestamp,
              duration |-> 0]

NoResult == <<>>

NoRow == <<>>

NothingShown == [view |-> "none", forecast_df |-> DataFrame(<<>>, <<>>),
                 peak_hour |-> NoTimestamp, peak_volume |-> 0, total_calls |-> 0]

\* entering generate_single_unit_forecast: lines 84-88
EnterGenerate(unit_name, start_time, duration, census, organization_id, feature_columns) ==
    [start_time |-> start_time, duration |-> duration, census |-> census,
     organization_id |-> organization_id, feature_columns |-> feature_columns,
     unit_name |-> unit_name,
     timestamps |-> Timestamps(start_time, duration),
     predictions |-> <<>>, h |-> 1]

----------------------------------------------------------------------------
(* The hourly loop of generate_single_unit_forecast, one iteration per step *)

\* a slip: the handler catches the exception and stores what it has so far
RaiseStoringPartial(e, row, log) ==
    /\ error' = e
    /\ pc' = "idle"
    /\ IF caller = "direct"
       THEN /\ features_df' = row
            /\ predict_log' = log
            /\ UNCHANGED <<frame, session_state>>
       ELSE /\ frame' = NoFrame
            /\ predict_log' = <<>>
            /\ features_df' = NoRow
            /\ session_state' =
                  [unit_forecasts |-> unit_forecasts,
                   details |-> [hospital |-> request.selected_hospital,
                                unit |-> request.selected_unit]]
    /\ request' = NoRequest
    /\ unit_forecasts' = <<>>
    /\ ui' = 0
    /\ result' = NoResult
    /\ shown' = NothingShown
    /\ multiselect' = <<>>
    /\ UNCHANGED <<model_feature_columns, caller>>

\* an exception leaves generate_single_unit_forecast and, in the script, the
\* button handler and the script run: nothing is stored, nothing is rendered.
\* row and log are the predictor's input and calls up to the exception.
Raise(e, row, log) ==
    /\ error' = e
    /\ pc' = "idle"
    /\ IF caller = "direct"
       THEN /\ features_df' = row
            /\ predict_log' = log
            /\ UNCHANGED frame
       ELSE /\ frame' = NoFrame
            /\ predict_log' = <<>>
            /\ features_df' = NoRow
    /\ request' = NoRequest
    /\ unit_forecasts' = <<>>
    /\ ui' = 0
    /\ result' = NoResult
    /\ shown' = NothingShown
    /\ multiselect' = <<>>
    /\ UNCHANGED <<model_feature_columns, session_state, caller>>

\* lines 90-111: one pass of "for ts in timestamps"
PredictStep ==
    /\ pc = "gen"
    /\ frame.h <= Len(frame.timestamps)
    /\ LET ts == frame.timestamps[frame.h]
           feature_data == FeatureData(ts, frame.census, frame.organization_id,
                                       frame.feature_columns)
           missing == MissingColumns(feature_data, frame.feature_columns)
           row == SelectColumns(feature_data, frame.feature_columns)
           Call(outcome) == [unit_name |-> frame.unit_name, ts |-> ts,
                             census |-> frame.census,
                             organization_id |-> frame.organization_id,
                             ok |-> outcome.ok, raw |-> outcome.row]
       IN  IF missing # {}
           THEN Raise([type |-> "KeyError", missing |-> missing],
                      features_df, predict_log)
           ELSE \E outcome \in PredictOutcomes :
                  IF outcome.ok
                  THEN /\ features_df' = row
                       /\ predict_log' = Append(predict_log, Call(outcome))
                       /\ frame' = [frame EXCEPT
                              !.predictions = Append(@, PositivePrediction(outcome.row)),
                              !.h = @ + 1]
                       /\ UNCHANGED <<model_feature_columns, session_state, multiselect,
                                      shown, pc, caller, request, unit_forecasts, ui,
                                      result, error>>
                  ELSE Raise([type |-> "PredictionError", missing |-> {}],
                             row, Append(predict_log, Call(outcome)))

\* lines 113-114, and the assignment of line 162 in the handler
GenReturn ==
    /\ pc = "gen"
    /\ frame.h > Len(frame.timestamps)
    /\ LET df == DataFrame(frame.predictions, frame.timestamps)
       IN  IF caller = "direct"
           THEN /\ result' = <<df>>
                /\ pc' = "idle"
                /\ UNCHANGED <<unit_forecasts, ui, frame>>
           ELSE /\ unit_forecasts' = Append(unit_forecasts,
                                            [unit_name |-> frame.unit_name, df |-> df])
                /\ ui' = ui + 1
                /\ pc' = "loop"
                /\ frame' = NoFrame
                /\ UNCHANGED result
    /\ UNCHANGED <<model_feature_columns, session_state, multiselect, shown, caller,
                   request, features_df, predict_log, error>>

----------------------------------------------------------------------------
(* Direct calls of generate_single_unit_forecast *)

ColumnPool == {"rooms_with_patients", "hour_of_day", "day_of_week", "month",
               "organization_id_80", "organization_id_99"}

\* every ordered choice of at most MaxSchemaLen distinct columns
Schemas ==
    {s \in UNION {[1..n -> ColumnPool] : n \in 0..MaxSchemaLen} :
        \A i, j \in DOMAIN s : i # j => s[i] # s[j]}

StartTimes == {Timestamp(2024, 12, 31, 23, 0), Timestamp(2024, 2, 28, 23, 30),
               Timestamp(2023, 2, 28, 22, 0), Timestamp(2024, 3, 4, 8, 0)}

CensusArgs == {-1, 0, 25}

OrgArgs == {None, Some(80), Some(7)}

CanonicalSchema == <<"rooms_with_patients", "hour_of_day", "day_of_week",
                     "organization_id_80", "organization_id_99", "organization_id_78">>

\* a direct call: the arguments are drawn, lines 84-88 have run
InitGen ==
    /\ model_feature_columns = CanonicalSchema
    /\ session_state = <<>>
    /\ multiselect = <<>>
    /\ shown = NothingShown
    /\ pc = "gen"
    /\ caller = "direct"
    /\ request = NoRequest
    /\ unit_forecasts = <<>>
    /\ ui = 0
    /\ \E start_time \in StartTimes, duration \in (-1)..MaxGenDuration,
          census \in CensusArgs, organization_id \in OrgArgs,
          feature_columns \in Schemas :
         frame = EnterGenerate(NoUnit, start_time, duration, census,
                               organization_id, feature_columns)
    /\ features_df = NoRow
    /\ predict_log = <<>>
    /\ result = NoResult
    /\ error = NoError

NextGen == PredictStep \/ GenReturn

SpecGen == InitGen /\ [][NextGen]_vars

----------------------------------------------------------------------------
(* The directory: the first rows of each hospital of ORGANIZATION_DATA *)

ORGANIZATION_DATA ==
    << [organization_id |-> 80, hospital_name |-> "County General", unit_name |-> "Floor 1"],
       [organization_id |-> 99, hospital_name |-> "County General", unit_name |-> "Floor 2"],
       [organization_id |-> 78, hospital_name |-> "Seattle Grace", unit_name |-> "Unit 1"] >>

\* unit_to_org_id_map.get(unit_name): the last row of that name, or None
UnitToOrgId(unit_name) ==
    LET rows == {i \in DOMAIN ORGANIZATION_DATA :
                    ORGANIZATION_DATA[i].unit_name = unit_name}
    IN  IF rows = {} THEN None
        ELSE Some(ORGANIZATION_DATA[CHOOSE i \in rows : \A j \in rows : j <= i].organization_id)

\* a slip: "if not org_id:"
TruthyInverted(org_id) == ~(org_id # None /\ org_id[1] # 0)

\* "if org_id:"
Truthy(org_id) == org_id # None /\ org_id[1] # 0

Hospitals == {ORGANIZATION_DATA[i].hospital_name : i \in DOMAIN ORGANIZATION_DATA}

\* org_data[org_data['hospital_name'] == selected_hospital]['unit_name'].tolist()
UnitsForHospital(selected_hospital) ==
    LET OfHospital(row) == row.hospital_name = selected_hospital
        rows == SelectSeq(ORGANIZATION_DATA, OfHospital)
    IN  [i \in DOMAIN rows |-> rows[i].unit_name]

----------------------------------------------------------------------------
(* The results view: lines 168-193 *)

RECURSIVE SumSeq(_)
SumSeq(s) == IF s = <<>> THEN 0 ELSE s[1] + SumSeq(Tail(s))

RECURSIVE ConcatAll(_)
ConcatAll(seqs) == IF seqs = <<>> THEN <<>> ELSE seqs[1] \o ConcatAll(Tail(seqs))

\* the index labels of a group-by, ascending
RECURSIVE SortTs(_)
SortTs(S) ==
    IF S = {} THEN <<>>
    ELSE LET first == CHOOSE t \in S : \A u \in S \ {t} : TsLess(t, u)
         IN  <<first>> \o SortTs(S \ {first})

\* pd.concat(valid_forecasts).groupby(level=0).sum()
GroupBySum(valid_forecasts) ==
    LET index   == ConcatAll([i \in DOMAIN valid_forecasts |-> valid_forecasts[i].index])
        values  == ConcatAll([i \in DOMAIN valid_forecasts |-> valid_forecasts[i].values])
        labels  == SortTs(Range(index))
        Among(label) == LET Is(i) == index[i] = label
                        IN  SelectSeq([i \in DOMAIN index |-> i], Is)
        Total(label, c) == LET rows == Among(label)
                           IN  SumSeq([k \in DOMAIN rows |-> values[rows[k]][c]])
    IN  [index  |-> labels,
         values |-> [k \in DOMAIN labels |->
                        [c \in DOMAIN categories |-> Total(labels[k], c)]]]

\* forecast_df.sum(axis=1)
RowSums(df) == [k \in DOMAIN df.values |-> SumSeq(df.values[k])]

\* a slip: the last occurrence of the maximum
RECURSIVE ArgMaxLast(_, _, _)
ArgMaxLast(sums, i, best) ==
    IF i > Len(sums) THEN best
    ELSE ArgMaxLast(sums, i + 1, IF sums[i] >= sums[best] THEN i ELSE best)

\* Series.idxmax(): the position of the first occurrence of the maximum
RECURSIVE ArgMax(_, _, _)
ArgMax(sums, i, best) ==
    IF i > Len(sums) THEN best
    ELSE ArgMax(sums, i + 1, IF sums[i] > sums[best] THEN i ELSE best)

IdxMax(df) == df.index[ArgMax(RowSums(df), 2, 1)]

\* the dict unit_forecasts: its keys in insertion order, and a lookup
Keys(forecasts) == [i \in DOMAIN forecasts |-> forecasts[i].unit_name]

Lookup(forecasts, unit_name) ==
    forecasts[CHOOSE i \in DOMAIN forecasts : forecasts[i].unit_name = unit_name].df

\* df.empty
Empty(df) == Len(df.index) = 0

\* the value st.multiselect returns: the user's choice while the widget keeps
\* its options, the default (all units) otherwise
MultiselectValue(widget, all_units) ==
    IF widget # <<>> /\ widget[1].options = all_units
    THEN widget[1].value ELSE all_units

\* lines 168-193 for a session state and the selection in effect
Render(state, selected_units_for_view) ==
    IF "unit_forecasts" \notin DOMAIN state THEN NothingShown
    ELSE IF selected_units_for_view = <<>>
    THEN [NothingShown EXCEPT !.view = "select_a_unit"]
    ELSE LET forecasts == state["unit_forecasts"]
             NotEmpty(unit) == ~Empty(Lookup(forecasts, unit))
             units == SelectSeq(selected_units_for_view, NotEmpty)
             valid_forecasts == [i \in DOMAIN units |-> Lookup(forecasts, units[i])]
         IN  IF valid_forecasts = <<>>
             THEN [NothingShown EXCEPT !.view = "no_valid_forecast"]
             ELSE LET forecast_df == GroupBySum(valid_forecasts)
                  IN  [view |-> "table",
                       forecast_df |-> forecast_df,
                       total_calls |-> SumSeq(RowSums(forecast_df)),
                       peak_hour |-> IdxMax(forecast_df),
                       peak_volume |-> RowSums(forecast_df)[ArgMax(RowSums(forecast_df), 2, 1)]]

\* a slip: the filter is ignored
SelectedUnitsForViewAll(state, widget) == Keys(state["unit_forecasts"])

\* lines 171-176: the selection in effect in a script run
SelectedUnitsForView(state, widget) ==
    LET all_units == Keys(state["unit_forecasts"])
    IN  IF state["details"].unit = "All"
        THEN MultiselectValue(widget, all_units)
        ELSE all_units

\* the multiselect after a script run: it exists only where line 176 ran
WidgetAfter(state, widget) ==
    LET all_units == Keys(state["unit_forecasts"])
    IN  IF state["details"].unit = "All"
        THEN <<[options |-> all_units, value |-> MultiselectValue(widget, all_units)]>>
        ELSE <<>>

----------------------------------------------------------------------------
(* The Streamlit script: the button handler (lines 156-166) and reruns *)

AppSchemas == {CanonicalSchema,
               <<"rooms_with_patients", "hour_of_day", "day_of_week", "month">>}

CensusInputs == {0, 25}

AppStartTimes == {Timestamp(2024, 12, 31, 23, 0)}

\* lines 133-141: unit_census_map as (unit, census) items in insertion order
UnitCensusMaps(selected_hospital, selected_unit) ==
    LET units == IF selected_unit = "All"
                 THEN UnitsForHospital(selected_hospital)
                 ELSE <<selected_unit>>
    IN  {[i \in DOMAIN units |-> [unit_name |-> units[i], census |-> c[i]]] :
            c \in [DOMAIN units -> CensusInputs]}

\* the button is pressed: the script reruns with the widget values of the
\* moment and enters the handler (lines 156-158)
ClickForecast ==
    /\ pc = "idle"
    /\ \E selected_hospital \in Hospitals :
       \E selected_unit \in {"All"} \cup Range(UnitsForHospital(selected_hospital)) :
       \E unit_census_map \in UnitCensusMaps(selected_hospital, selected_unit) :
       \E start_datetime \in AppStartTimes, duration \in 1..MaxDuration :
         request' = [selected_hospital |-> selected_hospital,
                     selected_unit |-> selected_unit,
                     unit_census_map |-> unit_census_map,
                     start_datetime |-> start_datetime,
                     duration |-> duration]
    /\ pc' = "loop"
    /\ caller' = "handler"
    /\ unit_forecasts' = <<>>
    /\ ui' = 1
    /\ predict_log' = <<>>
    /\ features_df' = NoRow
    /\ error' = NoError
    /\ shown' = NothingShown
    /\ UNCHANGED <<model_feature_columns, session_state, multiselect, frame, result>>

\* lines 159-162: the next item of unit_census_map
LoopUnit ==
    /\ pc = "loop"
    /\ ui <= Len(request.unit_census_map)
    /\ LET item == request.unit_census_map[ui]
           org_id == UnitToOrgId(item.unit_name)
       IN  IF Truthy(org_id)
           THEN /\ frame' = EnterGenerate(item.unit_name, request.start_datetime,
                                          request.duration, item.census, org_id,
                                          model_feature_columns)
                /\ pc' = "gen"
                /\ UNCHANGED ui
           ELSE /\ ui' = ui + 1
                /\ UNCHANGED <<frame, pc>>
    /\ UNCHANGED <<model_feature_columns, session_state, multiselect, shown, caller,
                   request, unit_forecasts, features_df, predict_log, result, error>>

\* lines 164-193: the loop is over, the forecasts are stored and the view drawn
StoreAndRender ==
    /\ pc = "loop"
    /\ ui > Len(request.unit_census_map)
    /\ LET state == [unit_forecasts |-> unit_forecasts,
                     details |-> [hospital |-> request.selected_hospital,
                                  unit |-> request.selected_unit]]
       IN  /\ session_state' = state
           /\ shown' = Render(state, SelectedUnitsForView(state, multiselect))
           /\ multiselect' = WidgetAfter(state, multiselect)
    /\ pc' = "idle"
    /\ request' = NoRequest
    /\ unit_forecasts' = <<>>
    /\ ui' = 0
    /\ predict_log' = <<>>
    /\ features_df' = NoRow
    /\ UNCHANGED <<model_feature_columns, caller, frame, result, error>>

\* the user changes the filter: the script reruns, the button reads False
\* (the selection is taken in the order of the options)
SetFilter ==
    /\ pc = "idle"
    /\ multiselect # <<>>
    /\ "unit_forecasts" \in DOMAIN session_state
    /\ \E chosen \in SUBSET Range(multiselect[1].options) :
         LET Chosen(unit) == unit \in chosen
             widget == <<[options |-> multiselect[1].options,
                          value |-> SelectSeq(multiselect[1].options, Chosen)]>>
         IN  /\ widget # multiselect
             /\ shown' = Render(session_state,
                                SelectedUnitsForView(session_state, widget))
             /\ multiselect' = WidgetAfter(session_state, widget)
    /\ error' = NoError
    /\ UNCHANGED <<model_feature_columns, session_state, pc, caller, request,
                   unit_forecasts, ui, frame, features_df, predict_log, result>>

\* any other widget changes: the script reruns, the button reads False and
\* the view is drawn from the session state
Rerun ==
    /\ pc = "idle"
    /\ "unit_forecasts" \in DOMAIN session_state
    /\ shown = NothingShown
    /\ shown' = Render(session_state, SelectedUnitsForView(session_state, multiselect))
    /\ multiselect' = WidgetAfter(session_state, multiselect)
    /\ error' = NoError
    /\ UNCHANGED <<model_feature_columns, session_state, pc, caller, request,
                   unit_forecasts, ui, frame, features_df, predict_log, result>>

Init ==
    /\ model_feature_columns \in AppSchemas
    /\ session_state = <<>>
    /\ multiselect = <<>>
    /\ shown = NothingShown
    /\ pc = "idle"
    /\ caller = "handler"
    /\ request = NoRequest
    /\ unit_forecasts = <<>>
    /\ ui = 0
    /\ frame = NoFrame
    /\ features_df = NoRow
    /\ predict_log = <<>>
    /\ result = NoResult
    /\ error = NoError

Next ==
    ClickForecast \/ LoopUnit \/ PredictStep \/ GenReturn \/ StoreAndRender
        \/ SetFilter \/ Rerun

Spec == Init /\ [][Next]_vars

----------------------------------------------------------------------------
(* Properties of the feature row (SpecGen) *)

BaseColumns == {"rooms_with_patients", "hour_of_day", "day_of_week"}

IsIndicator(col) == StartsWith(col, "organization_id_")

\* the columns of a schema that no population rule of lines 91-102 sets
Unpopulated(schema) ==
    {col \in Range(schema) : col \notin BaseColumns /\ ~IsIndicator(col)}

PredictorCalled == predict_log # <<>>

\* the first pass of the loop has been attempted
BuildAttempted == Len(frame.timestamps) > 0 /\ (frame.h > 1 \/ pc = "idle")

\* C1: for a non-empty schema, the row passed to the predictor has exactly the
\* schema's columns, in schema order: none missing, none extra.
C1_RowHasSchemaColumns ==
    (PredictorCalled /\ frame.feature_columns # <<>>) =>
        /\ Len(features_df) = Len(frame.feature_columns)
        /\ \A i \in DOMAIN features_df : features_df[i][1] = frame.feature_columns[i]

\* a row was passed for a schema of three columns that lists an indicator
\* first, then two of the three base columns out of the dict's own order
C1_Witness ==
    /\ PredictorCalled
    /\ frame.feature_columns = <<"organization_id_80", "hour_of_day", "rooms_with_patients">>

\* C2: for a schema with a column no rule populates (month), building the row
\* succeeds and the column is 0 in the row passed to the predictor.
C2_DefaultZero ==
    (BuildAttempted /\ Unpopulated(frame.feature_columns) # {}) =>
        /\ error.type # "KeyError"
        /\ PredictorCalled
        /\ \A i \in DOMAIN features_df :
              features_df[i][1] \in Unpopulated(frame.feature_columns)
                  => features_df[i][2] = 0

----------------------------------------------------------------------------
(* Properties of the hourly index (SpecGen) *)

\* the days of a month of the calendar
DaysInMonth(y, m) ==
    IF m = 2 THEN (IF y % 4 = 0 /\ (y % 100 # 0 \/ y % 400 = 0) THEN 29 ELSE 28)
    ELSE IF m \in {4, 6, 9, 11} THEN 30 ELSE 31

\* the hour after ts, by the calendar: hour, then day, month and year roll over
NextHour(ts) ==
    IF ts.hour < 23 THEN [ts EXCEPT !.hour = @ + 1]
    ELSE IF ts.day < DaysInMonth(ts.year, ts.month)
         THEN [ts EXCEPT !.hour = 0, !.day = @ + 1]
    ELSE IF ts.month < 12
         THEN [ts EXCEPT !.hour = 0, !.day = 1, !.month = @ + 1]
    ELSE [ts EXCEPT !.hour = 0, !.day = 1, !.month = 1, !.year = @ + 1]

\* C4: for a positive duration d the returned forecast has exactly d rows,
\* indexed by start, start+1h, ..., start+(d-1)h in that order, each the hour
\* after the one before (no gap, no duplicate) across day, month and year ends.
C4_ConsecutiveHours ==
    (result # NoResult /\ frame.duration > 0) =>
        LET df == result[1]
        IN  /\ Len(df.index) = frame.duration
            /\ Len(df.values) = frame.duration
            /\ df.index[1] = frame.start_time
            /\ \A k \in 1..(Len(df.index) - 1) :
                  /\ df.index[k + 1] = NextHour(df.index[k])
                  /\ TsLess(df.index[k], df.index[k + 1])
            /\ \A j, k \in DOMAIN df.index : j # k => df.index[j] # df.index[k]

\* a two-hour forecast from 2024-12-31 23:00 was returned: it crosses the day,
\* the month and the year
C4_Witness ==
    /\ result # NoResult
    /\ frame.duration = 2
    /\ frame.start_time = Timestamp(2024, 12, 31, 23, 0)
    /\ result[1].index[2] = Timestamp(2025, 1, 1, 0, 0)

InvalidRequest ==
    \/ frame.feature_columns = <<>>
    \/ frame.duration <= 0
    \/ frame.census < 0
    \/ frame.organization_id = None

\* C10: a request with an empty schema, a non-positive duration, a negative
\* census or no organization id is rejected with an error before the
\* predictor is invoked.
C10_InvalidRejected ==
    InvalidRequest =>
        /\ ~PredictorCalled
        /\ result = NoResult
        /\ pc = "idle" => error.type \notin {"none", "PredictionError"}

----------------------------------------------------------------------------
(* Properties of a forecast request (Spec) *)

Stored == "unit_forecasts" \in DOMAIN session_state

\* the handler's loop over unit_census_map is over, nothing is stored yet
LoopDone == pc = "loop" /\ ui > Len(request.unit_census_map)

\* the calls of the predictor made for a unit and an hour
CallsFor(unit_name, ts) ==
    {i \in DOMAIN predict_log :
        predict_log[i].unit_name = unit_name /\ predict_log[i].ts = ts}

\* the hour k hours after ts, by the calendar
RECURSIVE HoursAfter(_, _)
HoursAfter(ts, k) == IF k = 0 THEN ts ELSE NextHour(HoursAfter(ts, k - 1))

\* the directory's organization id of a unit
DirectoryId(unit_name) ==
    (CHOOSE row \in Range(ORGANIZATION_DATA) : row.unit_name = unit_name).organization_id

\* C5: in one request the predictor is invoked at most once per (hour, unit);
\* when the loop is over it has been invoked exactly once for every hour of
\* the window and every unit of unit_census_map, with that unit's census and
\* organization id, and its result is recorded under that unit and hour.
C5_OncePerHourAndUnit ==
    /\ \A i, j \in DOMAIN predict_log :
          (predict_log[i].unit_name = predict_log[j].unit_name
              /\ predict_log[i].ts = predict_log[j].ts) => i = j
    /\ LoopDone =>
          /\ Keys(unit_forecasts) =
                [i \in DOMAIN request.unit_census_map |->
                    request.unit_census_map[i].unit_name]
          /\ Len(predict_log) = Len(request.unit_census_map) * request.duration
          /\ \A i \in DOMAIN request.unit_census_map :
             \A k \in 1..request.duration :
                LET item == request.unit_census_map[i]
                    ts == HoursAfter(request.start_datetime, k - 1)
                    calls == CallsFor(item.unit_name, ts)
                    df == unit_forecasts[i].df
                IN  /\ Cardinality(calls) = 1
                    /\ \A n \in calls :
                          /\ predict_log[n].census = item.census
                          /\ predict_log[n].organization_id
                                = Some(DirectoryId(item.unit_name))
                          /\ df.index[k] = ts
                          /\ \A c \in DOMAIN categories :
                                df.values[k][c] =
                                    IF predict_log[n].raw[c] < 0 THEN 0
                                    ELSE predict_log[n].raw[c]

\* the loop is over for two units with different census, two hours each
C5_Witness ==
    /\ LoopDone
    /\ Len(request.unit_census_map) = 2
    /\ request.unit_census_map[1].census # request.unit_census_map[2].census
    /\ request.duration = 2
    /\ Len(predict_log) = 4

AllValues(df) == {df.values[k][c] : k \in DOMAIN df.values, c \in DOMAIN categories}

\* C6: every value of a per-unit forecast is max(0, raw value) of the
\* predictor's result for its hour and category; every stored per-unit value
\* and every value of the aggregated table is >= 0.
C6_Clamped ==
    /\ \A k \in DOMAIN frame.predictions :
       \A n \in CallsFor(frame.unit_name, frame.timestamps[k]) :
       \A c \in DOMAIN categories :
          frame.predictions[k][c] =
              IF predict_log[n].raw[c] < 0 THEN 0 ELSE predict_log[n].raw[c]
    /\ \A i \in DOMAIN unit_forecasts :
       \A k \in DOMAIN unit_forecasts[i].df.index :
       \A n \in CallsFor(unit_forecasts[i].unit_name, unit_forecasts[i].df.index[k]) :
       \A c \in DOMAIN categories :
          unit_forecasts[i].df.values[k][c] =
              IF predict_log[n].raw[c] < 0 THEN 0 ELSE predict_log[n].raw[c]
    /\ \A i \in DOMAIN unit_forecasts : \A v \in AllValues(unit_forecasts[i].df) : v >= 0
    /\ Stored =>
          \A i \in DOMAIN session_state.unit_forecasts :
             \A v \in AllValues(session_state.unit_forecasts[i].df) : v >= 0
    /\ \A v \in AllValues(shown.forecast_df) : v >= 0

\* a forecast returned to the handler holds a 0 where the predictor gave -1
C6_Witness ==
    /\ pc = "loop"
    /\ unit_forecasts # <<>>
    /\ predict_log[1].raw[1] = -1
    /\ unit_forecasts[1].df.values[1][1] = 0

----------------------------------------------------------------------------
(* Properties of the results view (Spec) *)

\* the units whose rows the view adds up
ViewSelection ==
    IF session_state.details.unit = "All"
    THEN multiselect[1].value
    ELSE Keys(session_state.unit_forecasts)

ForecastOf(unit_name) ==
    LET f == session_state.unit_forecasts
    IN  f[CHOOSE i \in DOMAIN f : f[i].unit_name = unit_name].df

C7_TableIsSumOfSelection ==
    (pc = "idle" /\ shown.view = "table") =>
        LET S == ViewSelection
            table == shown.forecast_df
        IN  /\ S # <<>>
            /\ table.index = ForecastOf(S[1]).index
            /\ \A k \in DOMAIN table.index : \A c \in DOMAIN categories :
                  table.values[k][c] =
                      SumSeq([i \in DOMAIN S |-> ForecastOf(S[i]).values[k][c]])

C7_FilterLeavesForecasts ==
    (pc = "idle" /\ pc' = "idle") =>
        /\ session_state' = session_state
        /\ predict_log' = predict_log
        /\ features_df' = features_df

\* C7: the aggregated table's row for every hour is the category-wise sum of
\* the rows of exactly the selected units, whatever the other units hold, and
\* a change of the filter neither invokes the predictor nor alters the stored
\* per-unit forecasts.
C7_SubsetAggregation ==
    [](C7_TableIsSumOfSelection) /\ [][C7_FilterLeavesForecasts]_vars

\* of two stored units with different forecasts only the second is selected
C7_Witness ==
    /\ pc = "idle"
    /\ shown.view = "table"
    /\ Stored
    /\ Keys(session_state.unit_forecasts) = <<"Floor 1", "Floor 2">>
    /\ multiselect # <<>>
    /\ multiselect[1].value = <<"Floor 2">>
    /\ ForecastOf("Floor 1").values # ForecastOf("Floor 2").values
    /\ shown.forecast_df.values = ForecastOf("Floor 2").values

HourTotal(df, k) ==
    df.values[k][1] + df.values[k][2] + df.values[k][3] + df.values[k][4] + df.values[k][5]

\* C8: the peak hour is an hour of the aggregated table whose total over the
\* categories is maximal, and the earliest of the hours with that total.
C8_PeakHour ==
    shown.view = "table" =>
        LET df == shown.forecast_df
        IN  \E p \in DOMAIN df.index :
              /\ df.index[p] = shown.peak_hour
              /\ \A k \in DOMAIN df.index :
                    /\ HourTotal(df, k) <= HourTotal(df, p)
                    /\ (k # p /\ HourTotal(df, k) = HourTotal(df, p))
                          => TsLess(df.index[p], df.index[k])

\* two hours tie at the maximum and the earlier one is reported
C8_Witness ==
    /\ shown.view = "table"
    /\ Len(shown.forecast_df.index) = 2
    /\ HourTotal(shown.forecast_df, 1) = HourTotal(shown.forecast_df, 2)
    /\ HourTotal(shown.forecast_df, 1) > 0
    /\ shown.peak_hour = Timestamp(2024, 12, 31, 23, 0)

\* what is stored is the whole of one request: every unit of its scope, the
\* same consecutive hours for each, and a row for every hour
StoredIsComplete ==
    Stored =>
        LET f == session_state.unit_forecasts
            d == session_state.details
        IN  /\ Keys(f) = IF d.unit = "All" THEN UnitsForHospital(d.hospital)
                         ELSE <<d.unit>>
            /\ \A i \in DOMAIN f :
                  /\ f[i].df.index = f[1].df.index
                  /\ Len(f[i].df.values) = Len(f[i].df.index)
                  /\ Len(f[i].df.index) >= 1
                  /\ \A k \in 1..(Len(f[i].df.index) - 1) :
                        f[i].df.index[k + 1] = NextHour(f[i].df.index[k])
            /\ shown.view = "table" => shown.forecast_df.index = f[1].df.index

PredictorFails == pc = "gen" /\ error'.type = "PredictionError"

FailureAborts ==
    PredictorFails =>
        /\ pc' = "idle"
        /\ frame' = NoFrame
        /\ request' = NoRequest
        /\ session_state' = session_state
        /\ shown' = NothingShown

\* C9: when the predictor fails the request ends there: no further hour or
\* unit is predicted, session state is left as it was and nothing is shown;
\* what session state holds is always the whole of one request.
C9_NoPartialForecast == [](StoredIsComplete) /\ [][FailureAborts]_vars

\* a request failed while the forecasts of an earlier request are stored
C9_Witness ==
    /\ error.type = "PredictionError"
    /\ pc = "idle"
    /\ Stored
    /\ shown = NothingShown

====
